---------------------------- MODULE Spec2Model ----------------------------
(***************************************************************************)
(* A model of gmail_agent.py: the part decoder (_decode_part_data), the    *)
(* MIME tree walker (extract_message_text), the message summarizer         *)
(* (extract_essential_fields) and the fetch orchestrator                   *)
(* (fetch_gmail_summary).                                                  *)
(*                                                                         *)
(* Representation of Python values:                                        *)
(*   - a str that the code processes character by character (body data,    *)
(*     decoded text, internalDate) is a sequence of Unicode code points;   *)
(*   - bytes are a sequence of 0..255;                                     *)
(*   - a str that the code only compares or passes on (ids, header names   *)
(*     and values) is a TLA+ string;                                       *)
(*   - a dict is a record whose DOMAIN is the set of keys present;         *)
(*   - a mime type is the sequence of its "/"-separated segments, so       *)
(*     "multipart/mixed" is <<"multipart", "mixed">> and "" is <<"">>;     *)
(*   - None is the record None; a value that may be None is tagged.        *)
(***************************************************************************)
EXTENDS Integers, Sequences, FiniteSets, TLC

VARIABLES
    \* _decode_part_data
    data_string, dpc, decoded_bytes, tried, dresult,
    \* extract_message_text
    payload, parts_to_visit, collected_texts, popped, wpc, message_text,
    \* extract_essential_fields
    message, epc, email,
    \* fetch_gmail_summary
    fpc, initial, message_ids, detail, completion, summary

decodeVars == <<data_string, dpc, decoded_bytes, tried, dresult>>
walkVars == <<payload, parts_to_visit, collected_texts, popped, wpc, message_text>>
fieldVars == <<message, epc, email>>
fetchVars == <<fpc, initial, message_ids, detail, completion, summary>>
vars == <<decodeVars, walkVars, fieldVars, fetchVars>>

(***************************************************************************)
(* Python values                                                           *)
(***************************************************************************)
None == [t |-> "none"]
StrVal(s) == [t |-> "str", s |-> s]
IntVal(i) == [t |-> "int", i |-> i]
LitVal(x) == [t |-> "lit", lit |-> x]

\* {}
EmptyDict == [k \in {} |-> None]

\* dict.get(key, default)
Get(d, k, default) == IF k \in DOMAIN d THEN d[k] ELSE default

\* Python truthiness of None, a str and an int
Truthy(v) ==
    CASE v.t = "none" -> FALSE
      [] v.t = "str" -> v.s # <<>>
      [] v.t = "int" -> v.i # 0

RECURSIVE Reverse(_)
Reverse(s) == IF s = <<>> THEN <<>> ELSE Append(Reverse(Tail(s)), Head(s))

(***************************************************************************)
(* base64.urlsafe_b64decode(data_string + padding)                         *)
(***************************************************************************)
PAD == 61

\* '=' * (-len(data_string) % 4)
Padding(s) ==
    LET n == (4 - (Len(s) % 4)) % 4
    IN  [k \in 1..n |-> PAD]

\* The urlsafe translation ('-' to '+', '_' to '/') followed by the base64
\* alphabet table; -1 for a character outside the alphabet.
B64Value(c) ==
    CASE c >= 65 /\ c <= 90 -> c - 65
      [] c >= 97 /\ c <= 122 -> c - 71
      [] c >= 48 /\ c <= 57 -> c + 4
      [] c = 45 \/ c = 43 -> 62
      [] c = 95 \/ c = 47 -> 63
      [] OTHER -> -1

\* binascii.a2b_base64 in its default (non-strict) mode: characters outside
\* the alphabet are skipped, a pad sequence that completes a quad ends the
\* input, and an incomplete final quad is an error.
RECURSIVE a2b_base64(_, _, _, _, _, _)
a2b_base64(s, i, quad_pos, leftchar, pads, out) ==
    IF i > Len(s)
    THEN IF quad_pos # 0
         THEN [ok |-> FALSE, bytes |-> <<>>]
         ELSE [ok |-> TRUE, bytes |-> out]
    ELSE LET c == s[i]
             v == B64Value(c)
         IN  IF c = PAD
             THEN IF quad_pos >= 2 /\ quad_pos + pads + 1 >= 4
                  THEN [ok |-> TRUE, bytes |-> out]
                  ELSE a2b_base64(s, i + 1, quad_pos, leftchar,
                                  IF quad_pos >= 2 THEN pads + 1 ELSE pads, out)
             ELSE IF v = -1
             THEN a2b_base64(s, i + 1, quad_pos, leftchar, pads, out)
             ELSE CASE quad_pos = 0 ->
                         a2b_base64(s, i + 1, 1, v, 0, out)
                    [] quad_pos = 1 ->
                         a2b_base64(s, i + 1, 2, v % 16, 0,
                                    Append(out, leftchar * 4 + (v \div 16)))
                    [] quad_pos = 2 ->
                         a2b_base64(s, i + 1, 3, v % 4, 0,
                                    Append(out, leftchar * 16 + (v \div 4)))
                    [] quad_pos = 3 ->
                         a2b_base64(s, i + 1, 0, 0, 0,
                                    Append(out, leftchar * 64 + v))

\* A str argument is first encoded as ASCII; a non-ASCII character raises
\* ValueError, which the caller's "except Exception" catches like
\* binascii.Error.
urlsafe_b64decode(s) ==
    IF \E i \in 1..Len(s) : s[i] > 127
    THEN [ok |-> FALSE, bytes |-> <<>>]
    ELSE a2b_base64(s, 1, 0, 0, 0, <<>>)

(***************************************************************************)
(* bytes.decode('utf-8'), strict and with errors='replace'                 *)
(***************************************************************************)
REPLACEMENT == 65533

IsContinuation(b) == b >= 128 /\ b <= 191

\* Number of bytes of the sequence a lead byte announces; 0 for a byte that
\* cannot start a sequence (80..C1, F5..FF).
SeqLen(b) ==
    CASE b < 128 -> 1
      [] b >= 194 /\ b <= 223 -> 2
      [] b >= 224 /\ b <= 239 -> 3
      [] b >= 240 /\ b <= 244 -> 4
      [] OTHER -> 0

\* The second byte's valid range excludes overlong forms, surrogates and
\* code points above 10FFFF.
SecondOk(lead, b2) ==
    /\ IsContinuation(b2)
    /\ (lead = 224 => b2 >= 160)
    /\ (lead = 237 => b2 < 160)
    /\ (lead = 240 => b2 >= 144)
    /\ (lead = 244 => b2 < 144)

\* Length of the longest prefix of bytes[i..] that is a prefix of a
\* well-formed sequence (at least 1: the lead byte itself).
ValidPrefix(bytes, i) ==
    LET lead == bytes[i]
        n == SeqLen(lead)
        has(k) == i + k <= Len(bytes)
    IN  IF n <= 1 THEN 1
        ELSE IF ~(has(1) /\ SecondOk(lead, bytes[i + 1])) THEN 1
        ELSE IF n = 2 THEN 2
        ELSE IF ~(has(2) /\ IsContinuation(bytes[i + 2])) THEN 2
        ELSE IF n = 3 THEN 3
        ELSE IF ~(has(3) /\ IsContinuation(bytes[i + 3])) THEN 3
        ELSE 4

CodePoint(bytes, i, n) ==
    CASE n = 1 -> bytes[i]
      [] n = 2 -> (bytes[i] - 192) * 64 + (bytes[i + 1] - 128)
      [] n = 3 -> (bytes[i] - 224) * 4096 + (bytes[i + 1] - 128) * 64
                    + (bytes[i + 2] - 128)
      [] n = 4 -> (bytes[i] - 240) * 262144 + (bytes[i + 1] - 128) * 4096
                    + (bytes[i + 2] - 128) * 64 + (bytes[i + 3] - 128)

\* A decoding error: either the error handler is 'strict' and
\* UnicodeDecodeError is raised, or the maximal ill-formed prefix is
\* replaced by one U+FFFD and decoding resumes after it.
RECURSIVE utf8_decode(_, _, _, _)
utf8_decode(bytes, i, acc, replace) ==
    IF i > Len(bytes) THEN [ok |-> TRUE, text |-> acc]
    ELSE LET n == SeqLen(bytes[i])
             k == ValidPrefix(bytes, i)
         IN  IF n # 0 /\ k = n
             THEN utf8_decode(bytes, i + n, Append(acc, CodePoint(bytes, i, n)),
                              replace)
             ELSE IF replace
             THEN utf8_decode(bytes, i + k, Append(acc, REPLACEMENT), replace)
             ELSE [ok |-> FALSE, text |-> <<>>]

decode_utf8_strict(bytes) == utf8_decode(bytes, 1, <<>>, FALSE)

decode_utf8_replace(bytes) == utf8_decode(bytes, 1, <<>>, TRUE).text

(***************************************************************************)
(* quopri.decodestring(decoded_bytes), that is binascii.a2b_qp             *)
(***************************************************************************)
IsHex(b) ==
    \/ b >= 48 /\ b <= 57
    \/ b >= 65 /\ b <= 70
    \/ b >= 97 /\ b <= 102

HexValue(b) ==
    CASE b >= 48 /\ b <= 57 -> b - 48
      [] b >= 65 /\ b <= 70 -> b - 55
      [] b >= 97 /\ b <= 102 -> b - 87

\* Index of the first "\n" at or after i, or Len(bytes) + 1.
RECURSIVE SkipToNewline(_, _)
SkipToNewline(bytes, i) ==
    IF i > Len(bytes) \/ bytes[i] = 10 THEN i ELSE SkipToNewline(bytes, i + 1)

RECURSIVE a2b_qp(_, _, _)
a2b_qp(bytes, i, out) ==
    IF i > Len(bytes) THEN out
    ELSE IF bytes[i] # 61 THEN a2b_qp(bytes, i + 1, Append(out, bytes[i]))
    ELSE LET j == i + 1
         IN  IF j > Len(bytes) THEN out
             ELSE IF bytes[j] = 10 \/ bytes[j] = 13
             THEN \* soft line break
                  LET nl == IF bytes[j] = 10 THEN j ELSE SkipToNewline(bytes, j)
                  IN  a2b_qp(bytes, IF nl <= Len(bytes) THEN nl + 1 ELSE nl, out)
             ELSE IF bytes[j] = 61
             THEN a2b_qp(bytes, j + 1, Append(out, 61))
             ELSE IF j + 1 <= Len(bytes) /\ IsHex(bytes[j]) /\ IsHex(bytes[j + 1])
             THEN a2b_qp(bytes, j + 2,
                         Append(out, HexValue(bytes[j]) * 16 + HexValue(bytes[j + 1])))
             ELSE a2b_qp(bytes, j, Append(out, 61))

\* a2b_qp accepts every bytes object: the call does not raise.
quopri_decodestring(bytes) == [ok |-> TRUE, bytes |-> a2b_qp(bytes, 1, <<>>)]

(***************************************************************************)
(* _decode_part_data as a function of its argument (None or a str)         *)
(***************************************************************************)
_decode_part_data(v) ==
    IF ~Truthy(v) THEN <<>>
    ELSE LET b == urlsafe_b64decode(v.s \o Padding(v.s))
         IN  IF ~b.ok THEN <<>>
             ELSE LET u == decode_utf8_strict(b.bytes)
                  IN  IF u.ok THEN u.text
                      ELSE LET q == quopri_decodestring(b.bytes)
                           IN  IF q.ok THEN decode_utf8_replace(q.bytes)
                               ELSE decode_utf8_replace(b.bytes)

(***************************************************************************)
(* Bounds and sample inputs                                                *)
(***************************************************************************)
\* Longest exhaustively enumerated body data string.
MaxDataLen == 4

\* Characters of the enumerated data strings: "_", "z", "0", "Q" (base64url
\* alphabet), "=" (pad), "!" (outside the alphabet), U+00E9 (non-ASCII).
DataChars == {95, 122, 48, 81, 61, 33, 233}

RECURSIVE SeqsUpTo(_, _)
SeqsUpTo(S, n) ==
    IF n = 0 THEN {<<>>}
    ELSE LET shorter == SeqsUpTo(S, n - 1)
         IN  shorter \cup {Append(s, c) : s \in {x \in shorter : Len(x) = n - 1}, c \in S}

\* base64url of "Hello world!", "Test body", "Without body" (the tests' bodies)
DataHelloWorld == <<83, 71, 86, 115, 98, 71, 56, 103, 100, 50, 57, 121, 98, 71, 81, 104>>
DataTestBody == <<86, 71, 86, 122, 100, 67, 66, 105, 98, 50, 82, 53>>
DataWithoutBody == <<86, 50, 108, 48, 97, 71, 57, 49, 100, 67, 66, 105, 98, 50, 82, 53>>
\* base64url of "A" and of "B"
DataA == <<81, 81>>
DataB == <<81, 103>>
\* base64url of the bytes FF "=41": not UTF-8, quoted-printable for FF "A"
DataQuopri == <<95, 122, 48, 48, 77, 81>>
\* base64url of "<p>Hi</p> <b>there</b>"
DataHtml == <<80, 72, 65, 45, 83, 71, 107, 56, 76, 51, 65, 45, 73, 68, 120, 105, 80, 110, 82, 111, 90, 88, 74, 108, 80, 67, 57, 105, 80, 103>>
\* base64url of "  " (decodes to whitespace only)
DataBlank == <<73, 67, 65>>

SampleData ==
    {DataHelloWorld, DataTestBody, DataWithoutBody, DataA, DataB, DataQuopri,
     DataHtml, DataBlank}

(***************************************************************************)
(* _decode_part_data, statement by statement                               *)
(***************************************************************************)
Pending == [t |-> "pending"]

DecodeIdle ==
    /\ data_string = None
    /\ dpc = "idle"
    /\ decoded_bytes = <<>>
    /\ tried = <<>>
    /\ dresult = Pending

DecodeInputs ==
    {None} \cup {StrVal(s) : s \in SeqsUpTo(DataChars, MaxDataLen) \cup SampleData}

\* if not data_string: return ""
DecodeStart ==
    /\ dpc = "start"
    /\ IF ~Truthy(data_string)
       THEN /\ dresult' = StrVal(<<>>)
            /\ dpc' = "done"
       ELSE /\ dpc' = "b64"
            /\ UNCHANGED dresult
    /\ UNCHANGED <<data_string, decoded_bytes, tried>>
    /\ UNCHANGED <<walkVars, fieldVars, fetchVars>>

\* try: decoded_bytes = base64.urlsafe_b64decode(data_string + padding)
\* except Exception: return ""
DecodeBase64 ==
    /\ dpc = "b64"
    /\ tried' = Append(tried, "base64")
    /\ LET b == urlsafe_b64decode(data_string.s \o Padding(data_string.s))
       IN  IF b.ok
           THEN /\ decoded_bytes' = b.bytes
                /\ dpc' = "utf8"
                /\ UNCHANGED dresult
           ELSE /\ dresult' = StrVal(<<>>)
                /\ dpc' = "done"
                /\ UNCHANGED decoded_bytes
    /\ UNCHANGED data_string
    /\ UNCHANGED <<walkVars, fieldVars, fetchVars>>

\* A plausible slip: the UnicodeDecodeError handler decodes the original
\* bytes with replacement without trying quoted-printable.
DecodeUtf8NoQuopri ==
    /\ dpc = "utf8"
    /\ tried' = Append(tried, "utf8")
    /\ LET u == decode_utf8_strict(decoded_bytes)
       IN  /\ dresult' = StrVal(IF u.ok THEN u.text
                                ELSE decode_utf8_replace(decoded_bytes))
           /\ dpc' = "done"
    /\ UNCHANGED <<data_string, decoded_bytes>>
    /\ UNCHANGED <<walkVars, fieldVars, fetchVars>>

\* try: return decoded_bytes.decode('utf-8')
\* except UnicodeDecodeError: (the quoted-printable attempt)
DecodeUtf8 ==
    /\ dpc = "utf8"
    /\ tried' = Append(tried, "utf8")
    /\ LET u == decode_utf8_strict(decoded_bytes)
       IN  IF u.ok
           THEN /\ dresult' = StrVal(u.text)
                /\ dpc' = "done"
           ELSE /\ dpc' = "quopri"
                /\ UNCHANGED dresult
    /\ UNCHANGED <<data_string, decoded_bytes>>
    /\ UNCHANGED <<walkVars, fieldVars, fetchVars>>

\* try: return quopri.decodestring(decoded_bytes).decode('utf-8', errors='replace')
\* except Exception: return decoded_bytes.decode('utf-8', errors='replace')
DecodeQuopri ==
    /\ dpc = "quopri"
    /\ tried' = Append(tried, "quopri")
    /\ LET q == quopri_decodestring(decoded_bytes)
       IN  dresult' = StrVal(IF q.ok THEN decode_utf8_replace(q.bytes)
                             ELSE decode_utf8_replace(decoded_bytes))
    /\ dpc' = "done"
    /\ UNCHANGED <<data_string, decoded_bytes>>
    /\ UNCHANGED <<walkVars, fieldVars, fetchVars>>

DecodeNext ==
    \/ DecodeStart
    \/ DecodeBase64
    \/ DecodeUtf8
    \/ DecodeQuopri

(***************************************************************************)
(* str helpers                                                             *)
(***************************************************************************)
NEWLINE == 10

\* The characters str.strip() removes (str.isspace()).
Whitespace ==
    {9, 10, 11, 12, 13, 28, 29, 30, 31, 32, 133, 160, 5760, 8232, 8233, 8239,
     8287, 12288} \cup (8192..8202)

RECURSIVE LStrip(_)
LStrip(s) ==
    IF s # <<>> /\ Head(s) \in Whitespace THEN LStrip(Tail(s)) ELSE s

\* str.strip()
Strip(s) == Reverse(LStrip(Reverse(LStrip(s))))

\* sep.join(texts)
RECURSIVE Join(_, _)
Join(texts, sep) ==
    IF texts = <<>> THEN <<>>
    ELSE IF Len(texts) = 1 THEN texts[1]
    ELSE texts[1] \o sep \o Join(Tail(texts), sep)

(***************************************************************************)
(* BeautifulSoup(html, "html.parser").get_text(separator="\n", strip=True) *)
(* for markup made of plain tags and text (no entities, comments, scripts  *)
(* or attribute values holding ">"): the text nodes are the runs outside   *)
(* the tags; each is stripped, the empty ones are dropped and the rest are *)
(* joined by the separator.                                                *)
(***************************************************************************)
IsTagOpen(s, i) ==
    /\ s[i] = 60
    /\ i + 1 <= Len(s)
    /\ \/ s[i + 1] = 47
       \/ s[i + 1] >= 65 /\ s[i + 1] <= 90
       \/ s[i + 1] >= 97 /\ s[i + 1] <= 122
    /\ \E j \in (i + 1)..Len(s) : s[j] = 62

RECURSIVE SkipTag(_, _)
SkipTag(s, i) == IF s[i] = 62 THEN i + 1 ELSE SkipTag(s, i + 1)

\* The text nodes of s from position i on; cur is the node being read.
RECURSIVE TextNodes(_, _, _)
TextNodes(s, i, cur) ==
    IF i > Len(s) THEN IF cur = <<>> THEN <<>> ELSE <<cur>>
    ELSE IF IsTagOpen(s, i)
    THEN (IF cur = <<>> THEN <<>> ELSE <<cur>>) \o TextNodes(s, SkipTag(s, i), <<>>)
    ELSE TextNodes(s, i + 1, Append(cur, s[i]))

RECURSIVE StripAll(_)
StripAll(nodes) ==
    IF nodes = <<>> THEN <<>>
    ELSE LET t == Strip(Head(nodes))
         IN  (IF t = <<>> THEN <<>> ELSE <<t>>) \o StripAll(Tail(nodes))

get_text(html) == Join(StripAll(TextNodes(html, 1, <<>>)), <<NEWLINE>>)

(***************************************************************************)
(* MIME part trees                                                         *)
(***************************************************************************)
TextPlain == <<"text", "plain">>
TextHtml == <<"text", "html">>

\* mime_type.startswith("multipart/")
StartsWithMultipart(mime_type) == Len(mime_type) >= 2 /\ mime_type[1] = "multipart"

\* current_part.get("mimeType", "")
MimeTypeOf(part) == Get(part, "mimeType", <<"">>)

\* current_part.get("parts", [])
SubParts(part) == Get(part, "parts", <<>>)

\* A part stands on the stack as a reference: its path from the payload,
\* the sequence of child positions leading to it (<<>> is the payload).
RECURSIVE PartAt(_, _)
PartAt(part, path) ==
    IF path = <<>> THEN part ELSE PartAt(SubParts(part)[Head(path)], Tail(path))

\* The nodes of the enumerated trees, without their children.
PlainA == [mimeType |-> TextPlain, body |-> [data |-> StrVal(DataA)]]
PlainB == [mimeType |-> TextPlain, body |-> [data |-> StrVal(DataB)]]
HtmlPart == [mimeType |-> TextHtml, body |-> [data |-> StrVal(DataHtml)]]
MixedPart == [mimeType |-> <<"multipart", "mixed">>, body |-> [size |-> 0]]
PdfPart == [mimeType |-> <<"application", "pdf">>, body |-> [data |-> StrVal(DataA)]]
UntypedPart == [body |-> [data |-> StrVal(DataB)]]

\* The nodes of the exhaustively enumerated trees.
NodeKinds == {PlainA, PlainB, MixedPart, PdfPart}

\* Largest number of parts in an enumerated payload.
MaxNodes == 4

WithParts(node, children) ==
    IF children = <<>> THEN node ELSE node @@ [parts |-> children]

\* The sequences of trees that hold n nodes in all, given trees[k], the
\* trees of k nodes, and forests[m], the sequences of m nodes, for smaller
\* k and m.
ForestsOf(n, trees, forests) ==
    UNION {{<<t>> \o f : t \in trees[k], f \in forests[n - k]} : k \in 1..n}

\* TreeTable(n, trees, forests) extends the two tables up to MaxNodes nodes:
\* a tree of n nodes is a node over a sequence of trees of n - 1 nodes.
RECURSIVE TreeTable(_, _, _)
TreeTable(n, trees, forests) ==
    IF n > MaxNodes THEN trees
    ELSE LET ts == {WithParts(node, f) : node \in NodeKinds, f \in forests[n - 1]}
             trees2 == (n :> ts) @@ trees
             fs == ForestsOf(n, trees2, forests)
         IN  TreeTable(n + 1, trees2, (n :> fs) @@ forests)

Trees == TreeTable(1, <<>>, 0 :> {<<>>})

\* Payloads with an HTML part, with parts that have no mimeType (the tests'
\* payloads among them) and with another multipart subtype.
SamplePayloads ==
    {[body |-> [data |-> StrVal(DataHelloWorld)]],
     [headers |-> <<>>, parts |-> <<[mimeType |-> TextPlain,
                                     body |-> [data |-> StrVal(DataWithoutBody)]]>>],
     HtmlPart,
     WithParts(HtmlPart, <<PlainA>>),
     WithParts(UntypedPart, <<PlainA, PlainB>>),
     WithParts(MixedPart, <<HtmlPart, PlainA>>),
     WithParts(MixedPart, <<WithParts(UntypedPart, <<PlainA>>), PlainB>>),
     WithParts(MixedPart, <<WithParts(HtmlPart, <<PlainA>>), PlainB>>),
     [mimeType |-> <<"multipart", "alternative">>,
      parts |-> <<PlainA, HtmlPart>>],
     [mimeType |-> <<"multipart">>, parts |-> <<PlainA>>],
     [mimeType |-> TextPlain, body |-> [data |-> StrVal(DataBlank)]],
     [mimeType |-> TextPlain, body |-> [data |-> StrVal(DataQuopri)]],
     [mimeType |-> TextPlain, body |-> [data |-> StrVal(<<>>)]],
     [mimeType |-> TextPlain, body |-> [size |-> 0]],
     [mimeType |-> TextPlain]}

Payloads == UNION {Trees[n] : n \in 1..MaxNodes} \cup SamplePayloads

(***************************************************************************)
(* extract_message_text, one loop iteration per step                       *)
(***************************************************************************)
WalkIdle ==
    /\ payload = MixedPart
    /\ parts_to_visit = <<>>
    /\ collected_texts = <<>>
    /\ popped = <<>>
    /\ wpc = "idle"
    /\ message_text = <<>>

\* body.get("data") of current_part.get("body", {})
BodyData(part) == Get(Get(part, "body", EmptyDict), "data", None)

\* What one popped part appends to collected_texts: nothing, or one text.
Collected(part) ==
    LET mime_type == MimeTypeOf(part)
        data == BodyData(part)
    IN  IF mime_type = TextPlain
        THEN IF Truthy(data)
             THEN LET decoded_text == _decode_part_data(data)
                  IN  IF decoded_text # <<>> THEN <<decoded_text>> ELSE <<>>
             ELSE <<>>
        ELSE IF mime_type = TextHtml
        THEN IF Truthy(data)
             THEN LET decoded_html == _decode_part_data(data)
                  IN  IF decoded_html # <<>>
                      THEN LET extracted_text == get_text(decoded_html)
                           IN  IF extracted_text # <<>> THEN <<extracted_text>>
                               ELSE <<>>
                      ELSE <<>>
             ELSE <<>>
        ELSE <<>>

\* A plausible slip: the sub-parts of every part are pushed.
PushedAlways(part, path) ==
    LET sub_parts == SubParts(part)
    IN  Reverse([i \in 1..Len(sub_parts) |-> Append(path, i)])

\* A plausible slip: the sub-parts are pushed in their original order, so
\* that the last one is popped first.
PushedInOrder(part, path) ==
    IF StartsWithMultipart(MimeTypeOf(part))
    THEN LET sub_parts == SubParts(part)
         IN  [i \in 1..Len(sub_parts) |-> Append(path, i)]
    ELSE <<>>

\* What one popped part pushes, bottom of the stack first:
\* for sub_part in reversed(sub_parts): parts_to_visit.append(sub_part)
Pushed(part, path) ==
    IF StartsWithMultipart(MimeTypeOf(part))
    THEN LET sub_parts == SubParts(part)
         IN  Reverse([i \in 1..Len(sub_parts) |-> Append(path, i)])
    ELSE <<>>

\* "\n".join(reversed(collected_texts)).strip()
JoinedText(texts) == Strip(Join(Reverse(texts), <<NEWLINE>>))

\* while parts_to_visit: current_part = parts_to_visit.pop(); ...
WalkStep ==
    /\ wpc = "loop"
    /\ parts_to_visit # <<>>
    /\ LET path == parts_to_visit[Len(parts_to_visit)]
           current_part == PartAt(payload, path)
       IN  /\ collected_texts' = collected_texts \o Collected(current_part)
           /\ parts_to_visit' =
                SubSeq(parts_to_visit, 1, Len(parts_to_visit) - 1)
                    \o Pushed(current_part, path)
           /\ popped' = Append(popped, path)
    /\ UNCHANGED <<payload, wpc, message_text>>
    /\ UNCHANGED <<decodeVars, fieldVars, fetchVars>>

\* return "\n".join(reversed(collected_texts)).strip()
WalkReturn ==
    /\ wpc = "loop"
    /\ parts_to_visit = <<>>
    /\ message_text' = JoinedText(collected_texts)
    /\ wpc' = "done"
    /\ UNCHANGED <<payload, parts_to_visit, collected_texts, popped>>
    /\ UNCHANGED <<decodeVars, fieldVars, fetchVars>>

WalkNext ==
    \/ WalkStep
    \/ WalkReturn

\* extract_message_text as a function of the payload
RECURSIVE WalkLoop(_, _, _)
WalkLoop(root, stack, texts) ==
    IF stack = <<>> THEN JoinedText(texts)
    ELSE LET path == stack[Len(stack)]
             current_part == PartAt(root, path)
         IN  WalkLoop(root,
                      SubSeq(stack, 1, Len(stack) - 1) \o Pushed(current_part, path),
                      texts \o Collected(current_part))

extract_message_text(root) == WalkLoop(root, <<<<>>>>, <<>>)

(***************************************************************************)
(* int(internalDate)                                                       *)
(***************************************************************************)
\* Python's int is unbounded and this model's integers are 32 bits wide, so
\* an int is held as a sign and two base-1000 limbs: the integer is
\* (hi * MILLIS + lo), negated when neg, with 0 <= lo < MILLIS. That holds
\* every magnitude below 2^31 * 1000, the tests' 13-digit dates included.
MILLIS == 1000

\* The first code point of each run of ten Unicode decimal digits
\* (Py_UNICODE_TODECIMAL, Unicode 14).
DecimalZeros ==
    {48, 1632, 1776, 1984, 2406, 2534, 2662, 2790, 2918, 3046, 3174, 3302,
     3430, 3558, 3664, 3792, 3872, 4160, 4240, 6112, 6160, 6470, 6608, 6784,
     6800, 6992, 7088, 7232, 7248, 42528, 43216, 43264, 43472, 43504, 43600,
     44016, 65296, 66720, 68912, 69734, 69872, 69942, 70096, 70384, 70736,
     70864, 71248, 71360, 71472, 71904, 72016, 72784, 73040, 73120, 92768,
     92864, 93008, 120782, 120792, 120802, 120812, 120822, 123200, 123632,
     125264, 130032}

\* A character int() reads as a decimal digit
IsDigit(c) == \E z \in DecimalZeros : z <= c /\ c <= z + 9

\* The digit's value
DigitValue(c) == c - (CHOOSE z \in DecimalZeros : z <= c /\ c <= z + 9)

\* A character int() skips around the number: the ASCII blanks, and the
\* Unicode spaces above ASCII. The separators U+001C..U+001F, which
\* str.strip() removes, are not among them.
IsIntSpace(c) == c \in {9, 10, 11, 12, 13, 32} \/ (c >= 127 /\ c \in Whitespace)

RECURSIVE LStripInt(_)
LStripInt(s) ==
    IF s # <<>> /\ IsIntSpace(Head(s)) THEN LStripInt(Tail(s)) ELSE s

StripInt(s) == Reverse(LStripInt(Reverse(LStripInt(s))))

\* The magnitude of a digit string, underscores skipped, as two limbs
RECURSIVE DigitsValue(_, _, _)
DigitsValue(s, hi, lo) ==
    IF s = <<>> THEN [hi |-> hi, lo |-> lo]
    ELSE IF Head(s) = 95 THEN DigitsValue(Tail(s), hi, lo)
    ELSE LET t == lo * 10 + DigitValue(Head(s))
         IN  DigitsValue(Tail(s), hi * 10 + t \div MILLIS, t % MILLIS)

\* int(str) in base 10: surrounding blanks are dropped, one sign may lead,
\* and the rest is digits, single underscores allowed between digits;
\* anything else raises ValueError.
ParseInt(s) ==
    LET t == StripInt(s)
        signed == t # <<>> /\ (t[1] = 45 \/ t[1] = 43)
        body == IF signed THEN Tail(t) ELSE t
        wellFormed ==
            /\ body # <<>>
            /\ \A i \in 1..Len(body) : IsDigit(body[i]) \/ body[i] = 95
            /\ IsDigit(body[1]) /\ IsDigit(body[Len(body)])
            /\ \A i \in 1..(Len(body) - 1) : ~(body[i] = 95 /\ body[i + 1] = 95)
    IN  IF ~wellFormed THEN [ok |-> FALSE, neg |-> FALSE, hi |-> 0, lo |-> 0]
        ELSE LET mag == DigitsValue(body, 0, 0)
             IN  [ok |-> TRUE,
                  neg |-> signed /\ t[1] = 45 /\ (mag.hi # 0 \/ mag.lo # 0),
                  hi |-> mag.hi, lo |-> mag.lo]

\* int(x) for an int or a str
ToInt(v) ==
    IF v.t = "int"
    THEN LET mag == IF v.i < 0 THEN 0 - v.i ELSE v.i
         IN  [ok |-> TRUE, neg |-> v.i < 0, hi |-> mag \div MILLIS, lo |-> mag % MILLIS]
    ELSE ParseInt(v.s)

\* n // 1000: the quotient rounded towards minus infinity
FloorDivMillis(n) ==
    IF ~n.neg THEN n.hi
    ELSE IF n.lo = 0 THEN 0 - n.hi
    ELSE 0 - n.hi - 1

(***************************************************************************)
(* extract_essential_fields                                                *)
(***************************************************************************)
\* A plausible slip: an internalDate of 0 is parsed like any other value
\* (a test for None instead of a test for truth).
TimestampUnlessNone(m) ==
    LET internalDate == Get(m, "internalDate", None)
    IN  IF internalDate.t # "none" /\ (internalDate.t = "str" => internalDate.s # <<>>)
        THEN LET n == ToInt(internalDate)
             IN  IF n.ok THEN [ok |-> TRUE, value |-> IntVal(FloorDivMillis(n))]
                 ELSE [ok |-> FALSE, value |-> None]
        ELSE [ok |-> TRUE, value |-> None]

\* int(message.get("internalDate", 0)) // 1000 if message.get("internalDate") else None
Timestamp(m) ==
    IF Truthy(Get(m, "internalDate", None))
    THEN LET n == ToInt(Get(m, "internalDate", IntVal(0)))
         IN  IF n.ok THEN [ok |-> TRUE, value |-> IntVal(FloorDivMillis(n))]
             ELSE [ok |-> FALSE, value |-> None]
    ELSE [ok |-> TRUE, value |-> None]

\* A plausible slip: the first header of a name is kept.
RECURSIVE HeadersFirstWins(_)
HeadersFirstWins(hs) ==
    IF hs = <<>> THEN EmptyDict
    ELSE LET h == hs[Len(hs)]
         IN  HeadersFirstWins(SubSeq(hs, 1, Len(hs) - 1)) @@ (h.name :> h.value)

\* {h["name"]: h["value"] for h in payload.get("headers", [])}: a later
\* header of the same name replaces the earlier one.
RECURSIVE HeadersDict(_)
HeadersDict(hs) ==
    IF hs = <<>> THEN EmptyDict
    ELSE LET h == hs[Len(hs)]
         IN  (h.name :> h.value) @@ HeadersDict(SubSeq(hs, 1, Len(hs) - 1))

\* d.get(key) for a key whose value is a str the code passes on
GetLit(d, k) == IF k \in DOMAIN d THEN LitVal(d[k]) ELSE None

Raised(exc) == [t |-> "raised", exc |-> exc]

extract_essential_fields(m) ==
    LET msg_payload == Get(m, "payload", EmptyDict)
        headers == HeadersDict(Get(msg_payload, "headers", <<>>))
        text == extract_message_text(msg_payload)
        ts == Timestamp(m)
    IN  IF ~ts.ok THEN Raised("ValueError")
        ELSE [t |-> "email",
              messageId |-> GetLit(m, "id"),
              threadId |-> GetLit(m, "threadId"),
              messageTimestamp |-> ts.value,
              labelIds |-> Get(m, "labelIds", <<>>),
              sender |-> GetLit(headers, "From"),
              subject |-> GetLit(headers, "Subject"),
              messageText |-> text]

\* Longest exhaustively enumerated internalDate string.
MaxDateLen == 4

\* Characters of the enumerated internalDate strings: "0", "1", "9", "-",
\* "_", " ", the separator U+001C, "x".
DateChars == {48, 49, 57, 45, 95, 32, 28, 120}

\* The tests' dates "1680000000000" and "1680000001000"
DateTest1 == <<49, 54, 56, 48, 48, 48, 48, 48, 48, 48, 48, 48, 48>>
DateTest2 == <<49, 54, 56, 48, 48, 48, 48, 48, 48, 49, 48, 48, 48>>
\* "-1500", " 2500 ", U+001C "1000", the Arabic-Indic digits "2500"
\* between no-break spaces
DateNegative == <<45, 49, 53, 48, 48>>
DateSpaced == <<32, 50, 53, 48, 48, 32>>
DateSeparator == <<28, 49, 48, 48, 48>>
DateArabic == <<160, 1634, 1637, 1632, 1632, 160>>

InternalDates ==
    {None}
        \cup {StrVal(s) : s \in SeqsUpTo(DateChars, MaxDateLen)
                                    \cup {DateTest1, DateTest2, DateNegative,
                                          DateSpaced, DateSeparator, DateArabic}}
        \cup {IntVal(i) : i \in {0, 1, 999, 1000, 1999, -1, -1000, -1001}}

HeaderNames == {"From", "from", "Subject"}
HeaderValues == {"sender1@example.com", "No Sender"}
Headers == {[name |-> n, value |-> v] : n \in HeaderNames, v \in HeaderValues}

\* Longest enumerated headers list.
MaxHeaders == 3

\* Messages whose internalDate varies, and messages whose headers vary.
Messages ==
    {[id |-> "msg1"]}
        \cup {[id |-> "msg1", internalDate |-> d] : d \in InternalDates}
        \cup {[id |-> "msg1", internalDate |-> StrVal(DateTest1),
               payload |-> [headers |-> hs, body |-> [data |-> StrVal(DataTestBody)]]] :
                 hs \in SeqsUpTo(Headers, MaxHeaders)}

\* email = extract_essential_fields(message)
ExtractFields ==
    /\ epc = "start"
    /\ email' = extract_essential_fields(message)
    /\ epc' = "done"
    /\ UNCHANGED message
    /\ UNCHANGED <<decodeVars, walkVars, fetchVars>>

FieldsNext == ExtractFields

(***************************************************************************)
(* The Gmail API as fetch_gmail_summary sees it                            *)
(***************************************************************************)
\* What awaiting client.get(...) yields: a response (httpx does not raise
\* for a 4xx or 5xx status; the code never calls raise_for_status), whose
\* json() either returns the parsed body or raises, or a transport
\* exception such as a timeout.
Response(status, json) == [t |-> "resp", status |-> status, valid |-> TRUE, json |-> json]
Malformed(status) == [t |-> "resp", status |-> status, valid |-> FALSE]
Timeout == [t |-> "exc", exc |-> "TimeoutException"]
ConnectError == [t |-> "exc", exc |-> "ConnectError"]

\* The body of a Gmail API error response
ErrorJson == [error |-> [code |-> 401, status |-> "UNAUTHENTICATED"]]

HttpError == Response(401, ErrorJson)

\* message_detail_1 and message_detail_2 of test_fetch_gmail_summary_normal
message_detail_1 ==
    [id |-> "msg1", threadId |-> "th1",
     internalDate |-> StrVal(DateTest1), labelIds |-> <<"INBOX">>,
     payload |->
        [headers |-> <<[name |-> "From", value |-> "sender1@example.com"],
                       [name |-> "Subject", value |-> "Test Subject 1"]>>,
         body |-> [data |-> StrVal(DataHelloWorld)]]]

message_detail_2 ==
    [id |-> "msg2", threadId |-> "th2",
     internalDate |-> StrVal(DateTest2), labelIds |-> <<"INBOX">>,
     payload |->
        [headers |-> <<[name |-> "From", value |-> "sender2@example.com"],
                       [name |-> "Subject", value |-> "Test Subject 2"]>>,
         body |-> [data |-> StrVal(DataTestBody)]]]

\* message_detail_1 of test_fetch_gmail_summary_missing_fields
message_detail_1_missing_fields ==
    [id |-> "msg1",
     payload |->
        [headers |-> <<[name |-> "Subject", value |-> "No Sender"]>>,
         parts |-> <<[mimeType |-> TextPlain,
                      body |-> [data |-> StrVal(DataWithoutBody)]]>>]]

\* A multipart/alternative message, of which no test has one
MessageAlternative ==
    [id |-> "msg3", threadId |-> "th3",
     internalDate |-> StrVal(DateTest2), labelIds |-> <<"INBOX">>,
     payload |->
        [mimeType |-> <<"multipart", "alternative">>,
         headers |-> <<[name |-> "From", value |-> "sender3@example.com"]>>,
         parts |-> <<PlainA, HtmlPart>>]]

\* The messages the server may hold under each id
MessageStore ==
    [id \in {"msg1", "msg2", "msg3"} |->
        CASE id = "msg1" -> {message_detail_1, message_detail_1_missing_fields}
          [] id = "msg2" -> {message_detail_2}
          [] id = "msg3" -> {MessageAlternative}]

MessageIdSet == DOMAIN MessageStore

\* Longest message list the server returns (the request asks for at most 10).
MaxMessages == 2

\* The id lists the server may return: no id twice.
IdLists ==
    {ids \in SeqsUpTo(MessageIdSet, MaxMessages) :
        \A i, j \in 1..Len(ids) : i # j => ids[i] # ids[j]}

InitialCalls == {"labels", "profile", "messages"}

\* labels_data and profile_data of the two tests
labels_data == {[labels |-> <<[id |-> "INBOX", name |-> "INBOX"]>>], [labels |-> <<>>]}
profile_data ==
    {[emailAddress |-> "user@example.com", messagesTotal |-> 100],
     [emailAddress |-> "user@example.com"]}

\* The outcomes of the three initial calls; the message list may lack the
\* "messages" key (an empty mailbox).
InitialOutcomes(call) ==
    {HttpError, Malformed(200), Timeout, ConnectError}
        \cup CASE call = "labels" -> {Response(200, j) : j \in labels_data}
               [] call = "profile" -> {Response(200, j) : j \in profile_data}
               [] call = "messages" ->
                    {Response(200, [resultSizeEstimate |-> 0])}
                        \cup {Response(200, [messages |-> [i \in 1..Len(ids) |-> [id |-> ids[i]]]]) :
                                ids \in IdLists \ {<<>>}}

\* The outcomes of GET messages/{msg_id}
DetailOutcomes(msg_id) ==
    {Response(200, m) : m \in MessageStore[msg_id]}
        \cup {HttpError, Malformed(200), Timeout, ConnectError}

(***************************************************************************)
(* fetch_gmail_summary                                                     *)
(***************************************************************************)
Inflight == [status |-> "inflight"]
Done(resp) == [status |-> "done", resp |-> resp]

\* await asyncio.gather(*tasks) returns once every task is done.
GatherDone(tasks) == \A c \in DOMAIN tasks : tasks[c].status = "done"

\* A task of the gather has ended with an exception.
GatherRaised(tasks) ==
    \E c \in DOMAIN tasks : tasks[c].status = "done" /\ tasks[c].resp.t = "exc"

\* The exception await asyncio.gather(*tasks) raises: that of the first task
\* to end with one. The other tasks are not cancelled.
FirstRaised(tasks, order) ==
    LET failed == {k \in 1..Len(order) : tasks[order[k]].resp.t = "exc"}
        first == CHOOSE k \in failed : \A j \in failed : k <= j
    IN  tasks[order[first]].resp.exc

\* A plausible slip: the results are taken in completion order
\* (asyncio.as_completed).
ResultsAsCompleted(tasks, order) == [i \in 1..Len(tasks) |-> tasks[order[i]].resp]

\* asyncio.gather returns the results in the order of its arguments,
\* whatever the order of completion.
GatherResults(tasks, order) == [i \in 1..Len(tasks) |-> tasks[i].resp]

\* client.get(labels), client.get(profile), client.get(messages); the
\* gather starts the three calls.
IssueInitial ==
    /\ fpc = "start"
    /\ initial' = [c \in InitialCalls |-> Inflight]
    /\ fpc' = "gather1"
    /\ UNCHANGED <<message_ids, detail, completion, summary>>
    /\ UNCHANGED <<decodeVars, walkVars, fieldVars>>

\* One of the three calls completes, with a response or an exception:
\* while fetch_gmail_summary is suspended in the gather, or after the gather
\* has raised, since it leaves the other calls running.
CompleteInitial(c, outcome) ==
    /\ fpc \in {"gather1", "failed"}
    /\ initial[c].status = "inflight"
    /\ initial' = [initial EXCEPT ![c] = Done(outcome)]
    /\ completion' = [completion EXCEPT !.initial = Append(@, c)]
    /\ UNCHANGED <<fpc, summary, message_ids, detail>>
    /\ UNCHANGED <<decodeVars, walkVars, fieldVars>>

\* fetch_gmail_summary resumes from the first gather with the exception of
\* a failed call, which propagates to the caller. Calls still in flight may
\* have completed between the failure and the resumption.
RaiseInitial ==
    /\ fpc = "gather1"
    /\ GatherRaised(initial)
    /\ fpc' = "failed"
    /\ summary' = Raised(FirstRaised(initial, completion.initial))
    /\ UNCHANGED <<initial, message_ids, detail, completion>>
    /\ UNCHANGED <<decodeVars, walkVars, fieldVars>>

\* A plausible slip: the detail calls are issued as soon as the message list
\* has arrived, without waiting for the labels and the profile.
IssueDetailsEarly ==
    /\ fpc = "gather1"
    /\ initial["messages"].status = "done"
    /\ initial["messages"].resp.t = "resp"
    /\ initial["messages"].resp.valid
    /\ LET listed == Get(initial["messages"].resp.json, "messages", <<>>)
       IN  /\ message_ids' = [i \in 1..Len(listed) |-> listed[i].id]
           /\ detail' = [i \in 1..Len(listed) |-> Inflight]
    /\ fpc' = "gather2"
    /\ UNCHANGED <<initial, completion, summary>>
    /\ UNCHANGED <<decodeVars, walkVars, fieldVars>>

\* labels = labels_resp.json(); profile = ...; messages = ...;
\* message_ids = [msg["id"] for msg in messages.get("messages", [])];
\* one client.get per id, started by the second gather.
IssueDetails ==
    /\ fpc = "gather1"
    /\ GatherDone(initial)
    /\ ~GatherRaised(initial)
    /\ IF \E c \in InitialCalls : ~initial[c].resp.valid
       THEN /\ fpc' = "failed"
            /\ summary' = Raised("JSONDecodeError")
            /\ UNCHANGED <<message_ids, detail>>
       ELSE LET messages == initial["messages"].resp.json
                listed == Get(messages, "messages", <<>>)
            IN  /\ message_ids' = [i \in 1..Len(listed) |-> listed[i].id]
                /\ detail' = [i \in 1..Len(listed) |-> Inflight]
                /\ fpc' = "gather2"
                /\ UNCHANGED summary
    /\ UNCHANGED <<initial, completion>>
    /\ UNCHANGED <<decodeVars, walkVars, fieldVars>>

\* One of the message-detail calls completes, with a response or an
\* exception: while fetch_gmail_summary is suspended in the gather, or after
\* the gather has raised.
CompleteDetail(i, outcome) ==
    /\ fpc \in {"gather2", "failed"}
    /\ detail[i].status = "inflight"
    /\ detail' = [detail EXCEPT ![i] = Done(outcome)]
    /\ completion' = [completion EXCEPT !.detail = Append(@, i)]
    /\ UNCHANGED <<fpc, summary, initial, message_ids>>
    /\ UNCHANGED <<decodeVars, walkVars, fieldVars>>

\* fetch_gmail_summary resumes from the second gather with the exception of
\* a failed call.
RaiseDetail ==
    /\ fpc = "gather2"
    /\ GatherRaised(detail)
    /\ fpc' = "failed"
    /\ summary' = Raised(FirstRaised(detail, completion.detail))
    /\ UNCHANGED <<initial, message_ids, detail, completion>>
    /\ UNCHANGED <<decodeVars, walkVars, fieldVars>>

\* message_jsons = [resp.json() for resp in message_responses];
\* emails = [extract_essential_fields(msg) for msg in message_jsons];
\* return {"labels": ..., "profile": ..., "emails": emails}
Summarize ==
    /\ fpc = "gather2"
    /\ GatherDone(detail)
    /\ ~GatherRaised(detail)
    /\ LET message_responses == GatherResults(detail, completion.detail)
           n == Len(message_responses)
       IN  IF \E i \in 1..n : ~message_responses[i].valid
           THEN /\ fpc' = "failed"
                /\ summary' = Raised("JSONDecodeError")
           ELSE LET emails == [i \in 1..n |->
                                  extract_essential_fields(message_responses[i].json)]
                IN  IF \E i \in 1..n : emails[i].t = "raised"
                    THEN /\ fpc' = "failed"
                         /\ summary' = Raised("ValueError")
                    ELSE /\ fpc' = "returned"
                         /\ summary' =
                              [t |-> "summary",
                               labels |-> Get(initial["labels"].resp.json, "labels", <<>>),
                               profile |-> initial["profile"].resp.json,
                               emails |-> emails]
    /\ UNCHANGED <<initial, message_ids, detail, completion>>
    /\ UNCHANGED <<decodeVars, walkVars, fieldVars>>

FetchNext ==
    \/ IssueInitial
    \/ \E c \in InitialCalls : \E outcome \in InitialOutcomes(c) :
          CompleteInitial(c, outcome)
    \/ RaiseInitial
    \/ IssueDetails
    \/ \E i \in DOMAIN detail : \E outcome \in DetailOutcomes(message_ids[i]) :
          CompleteDetail(i, outcome)
    \/ RaiseDetail
    \/ Summarize

(***************************************************************************)
(* Specifications                                                          *)
(***************************************************************************)
FieldIdle ==
    /\ message = [id |-> "msg1"]
    /\ epc = "idle"
    /\ email = Pending

FetchIdle ==
    /\ fpc = "idle"
    /\ initial = <<>>
    /\ message_ids = <<>>
    /\ detail = <<>>
    /\ completion = [initial |-> <<>>, detail |-> <<>>]
    /\ summary = Pending

DecodeInit ==
    /\ data_string \in DecodeInputs
    /\ dpc = "start"
    /\ decoded_bytes = <<>>
    /\ tried = <<>>
    /\ dresult = Pending
    /\ WalkIdle
    /\ FieldIdle
    /\ FetchIdle

SpecDecode == DecodeInit /\ [][DecodeNext]_vars

WalkInit ==
    /\ payload \in Payloads
    /\ parts_to_visit = <<<<>>>>
    /\ collected_texts = <<>>
    /\ popped = <<>>
    /\ wpc = "loop"
    /\ message_text = <<>>
    /\ DecodeIdle
    /\ FieldIdle
    /\ FetchIdle

SpecWalk == WalkInit /\ [][WalkNext]_vars

FieldsInit ==
    /\ message \in Messages
    /\ epc = "start"
    /\ email = Pending
    /\ DecodeIdle
    /\ WalkIdle
    /\ FetchIdle

SpecFields == FieldsInit /\ [][FieldsNext]_vars

FetchInit ==
    /\ fpc = "start"
    /\ initial = <<>>
    /\ message_ids = <<>>
    /\ detail = <<>>
    /\ completion = [initial |-> <<>>, detail |-> <<>>]
    /\ summary = Pending
    /\ DecodeIdle
    /\ WalkIdle
    /\ FieldIdle

SpecFetch == FetchInit /\ [][FetchNext]_vars

(***************************************************************************)
(* Claims                                                                  *)
(***************************************************************************)
Range(s) == {s[i] : i \in DOMAIN s}

IsPrefix(s, t) == Len(s) <= Len(t) /\ SubSeq(t, 1, Len(s)) = s

RECURSIVE ConcatAll(_)
ConcatAll(ss) == IF ss = <<>> THEN <<>> ELSE Head(ss) \o ConcatAll(Tail(ss))

IsLeaf(part) == SubParts(part) = <<>>

\* The text a text/plain part's body data decodes to.
PlainText(part) == _decode_part_data(BodyData(part))

\* The payload of claim C1: a multipart root over text/plain leaves that
\* carry distinct, non-empty text free of surrounding whitespace.
MultipartOfPlainLeaves(root) ==
    LET children == SubParts(root)
    IN  /\ StartsWithMultipart(MimeTypeOf(root))
        /\ children # <<>>
        /\ \A i \in 1..Len(children) :
              /\ MimeTypeOf(children[i]) = TextPlain
              /\ IsLeaf(children[i])
              /\ PlainText(children[i]) # <<>>
              /\ Strip(PlainText(children[i])) = PlainText(children[i])
        /\ \A i, j \in 1..Len(children) :
              i # j => PlainText(children[i]) # PlainText(children[j])

\* C1 (as claimed): for a multipart root whose children are text/plain
\* leaves with distinct non-empty text, extract_message_text returns the
\* fragments joined by a newline in document order: [A, B] gives "A\nB".
C1_DocumentOrder ==
    (wpc = "done" /\ MultipartOfPlainLeaves(payload)) =>
        LET children == SubParts(payload)
        IN  message_text =
              Join([i \in 1..Len(children) |-> PlainText(children[i])], <<NEWLINE>>)

\* The 200 responses among the message-detail calls, by position.
Delivered == {i \in DOMAIN detail : detail[i].resp.status = 200 /\ detail[i].resp.valid}

\* C2 (as claimed): when a message's payload has no mimeType,
\* fetch_gmail_summary still returns its text as messageText: the decoded
\* body data when the payload carries body.data, the decoded text of its
\* text/plain child when it carries a parts list.
C2_UntypedPayloadText ==
    fpc = "returned" =>
        \A i \in Delivered :
            LET p == Get(detail[i].resp.json, "payload", EmptyDict)
                text == summary.emails[i].messageText
            IN  "mimeType" \notin DOMAIN p =>
                  /\ Truthy(BodyData(p)) => text = _decode_part_data(BodyData(p))
                  /\ (Len(SubParts(p)) = 1 /\ MimeTypeOf(SubParts(p)[1]) = TextPlain)
                        => text = PlainText(SubParts(p)[1])

Succeeded(task) ==
    /\ task.status = "done"
    /\ task.resp.t = "resp"
    /\ task.resp.status = 200
    /\ task.resp.valid

\* C3 (as claimed): if any of the concurrent calls fails with an HTTP error
\* status, a timeout or malformed JSON, no GmailSummary is returned.
C3_AnyFailureIsFatal ==
    (fpc = "returned" \/ summary.t = "summary") =>
        /\ \A c \in DOMAIN initial : Succeeded(initial[c])
        /\ \A i \in DOMAIN detail : Succeeded(detail[i])

\* C4: fetch_gmail_summary is a two-stage fan-out/fan-in: no message-detail
\* call is issued before all three initial calls have completed, in
\* whatever order they complete, and no message is summarized and no result
\* returned before every message-detail call has completed.
C4_TwoStageFanIn ==
    /\ (detail # <<>> \/ fpc \in {"gather2", "returned"}) =>
          /\ DOMAIN initial = InitialCalls
          /\ \A c \in InitialCalls : initial[c].status = "done"
          /\ Len(completion.initial) = Cardinality(InitialCalls)
    /\ (fpc = "returned" \/ summary.t = "summary") =>
          /\ fpc = "returned"
          /\ \A i \in DOMAIN detail : detail[i].status = "done"
          /\ Len(completion.detail) = Len(detail)
          /\ Len(summary.emails) = Len(detail)

\* The three initial calls completed with the message list first and the
\* labels last, and the detail calls were issued after them.
C4_Witness ==
    /\ fpc = "gather2"
    /\ completion.initial = <<"messages", "profile", "labels">>
    /\ Len(detail) = MaxMessages
    /\ \A i \in DOMAIN detail : detail[i].status = "inflight"

\* C5: the emails sequence has exactly one entry per id of the message-list
\* response, in the order of that list, whatever the order in which the
\* message-detail calls complete: emails[i] is the summary of the i-th
\* listed id.
C5_EmailsInListOrder ==
    fpc = "returned" =>
        LET listed == Get(initial["messages"].resp.json, "messages", <<>>)
            emails == summary.emails
        IN  /\ Len(emails) = Len(listed)
            /\ \A i \in 1..Len(listed) :
                  /\ message_ids[i] = listed[i].id
                  /\ emails[i] = extract_essential_fields(detail[i].resp.json)
                  /\ i \in Delivered => emails[i].messageId = LitVal(listed[i].id)

\* Two messages were listed, the second one's detail call completed first,
\* and the summary was returned.
C5_Witness ==
    /\ fpc = "returned"
    /\ message_ids = <<"msg1", "msg3">>
    /\ completion.detail = <<2, 1>>
    /\ Delivered = {1, 2}
    /\ summary.emails[1].messageId = LitVal("msg1")
    /\ summary.emails[2].messageId = LitVal("msg3")

\* Every proper ancestor of the part at path starts with "multipart/".
AncestorsMultipart(root, path) ==
    \A k \in 0..(Len(path) - 1) :
        StartsWithMultipart(MimeTypeOf(PartAt(root, SubSeq(path, 1, k))))

\* C6: a part whose mime type does not start with multipart/ is never
\* descended into: its children are never pushed on the stack and
\* contribute no text, and a part that is neither text/plain nor text/html
\* contributes no text of its own.
C6_OnlyMultipartDescended ==
    /\ \A p \in Range(parts_to_visit) \cup Range(popped) :
          AncestorsMultipart(payload, p)
    /\ Len(collected_texts) <=
          Cardinality({i \in DOMAIN popped :
                          MimeTypeOf(PartAt(payload, popped[i])) \in {TextPlain, TextHtml}})
    /\ wpc = "done" =>
          (message_text # <<>> =>
              \E i \in DOMAIN popped :
                  MimeTypeOf(PartAt(payload, popped[i])) \in {TextPlain, TextHtml})

\* The walk is over for a multipart payload whose first child is an
\* attachment that has a text/plain child with text: the grandchild was
\* never popped and no text was collected.
C6_Witness ==
    /\ wpc = "done"
    /\ payload = WithParts(MixedPart, <<WithParts(PdfPart, <<PlainA>>)>>)
    /\ popped = <<<<>>, <<1>>>>
    /\ message_text = <<>>

\* internalDate is absent or falsy: None, "" or 0.
FalsyDate(m) ==
    \/ "internalDate" \notin DOMAIN m
    \/ m.internalDate.t = "none"
    \/ m.internalDate.t = "str" /\ m.internalDate.s = <<>>
    \/ m.internalDate.t = "int" /\ m.internalDate.i = 0

\* The integer n, for an n of less than 32 bits
Small(n) == n.hi < 1000000

AsInteger(n) == IF n.neg THEN 0 - (n.hi * MILLIS + n.lo) ELSE n.hi * MILLIS + n.lo

\* C7: messageTimestamp is null exactly when internalDate is absent or
\* falsy (a zero value included); otherwise it is internalDate, parsed as
\* integer milliseconds, floor-divided by 1000: the test's date
\* "1680000000000" gives 1680000000. (An internalDate that does not parse
\* as an integer raises ValueError and yields no record.)
C7_TimestampNullIffFalsy ==
    epc = "done" =>
        /\ FalsyDate(message) =>
              email.t = "email" /\ email.messageTimestamp = None
        /\ (~FalsyDate(message) /\ ToInt(message.internalDate).ok) =>
              /\ email.t = "email"
              /\ email.messageTimestamp.t = "int"
              /\ LET n == ToInt(message.internalDate)
                     seconds == email.messageTimestamp.i
                 IN  /\ Small(n) =>
                          /\ seconds * MILLIS <= AsInteger(n)
                          /\ AsInteger(n) < seconds * MILLIS + MILLIS
                     /\ message.internalDate = StrVal(DateTest1) => seconds = 1680000000
                     /\ message.internalDate = StrVal(DateTest2) => seconds = 1680000001
        /\ email.t = "email" =>
              (email.messageTimestamp = None <=> FalsyDate(message))

\* A message whose internalDate is the integer 0 was summarized.
C7_Witness ==
    /\ epc = "done"
    /\ "internalDate" \in DOMAIN message
    /\ message.internalDate = IntVal(0)
    /\ email.t = "email"
    /\ email.messageTimestamp = None

\* The bytes of a decoded data string, when base64 decoding succeeds.
Base64Of(v) == urlsafe_b64decode(v.s \o Padding(v.s))

\* C8: _decode_part_data never raises and always returns a string, in a
\* fixed fallback order: empty or absent input gives "" with no decode
\* attempted; a base64url failure gives ""; otherwise a successful strict
\* UTF-8 decode is returned; otherwise the quoted-printable decode of the
\* bytes, UTF-8 decoded with replacement; and only if quoted-printable
\* decoding fails, the original bytes UTF-8 decoded with replacement.
C8_DecodeFallbackOrder ==
    /\ dpc \in {"start", "b64", "utf8", "quopri", "done"}
    /\ dpc = "utf8" => tried = <<"base64">>
    /\ dpc = "quopri" => tried = <<"base64", "utf8">>
    /\ dpc = "done" =>
          /\ dresult.t = "str"
          /\ IF ~Truthy(data_string)
             THEN dresult.s = <<>> /\ tried = <<>>
             ELSE IF ~Base64Of(data_string).ok
             THEN dresult.s = <<>> /\ tried = <<"base64">>
             ELSE LET bytes == Base64Of(data_string).bytes
                      strict == decode_utf8_strict(bytes)
                      qp == quopri_decodestring(bytes)
                  IN  IF strict.ok
                      THEN dresult.s = strict.text /\ tried = <<"base64", "utf8">>
                      ELSE /\ tried = <<"base64", "utf8", "quopri">>
                           /\ qp.ok => dresult.s = decode_utf8_replace(qp.bytes)
                           /\ ~qp.ok => dresult.s = decode_utf8_replace(bytes)

\* The data decoded to bytes that are not UTF-8, and the quoted-printable
\* attempt changed them: FF "=41" gave U+FFFD "A".
C8_Witness ==
    /\ dpc = "done"
    /\ data_string = StrVal(DataQuopri)
    /\ tried = <<"base64", "utf8", "quopri">>
    /\ dresult = StrVal(<<REPLACEMENT, 65>>)
    /\ dresult.s # decode_utf8_replace(decoded_bytes)

\* The positions of the headers named name.
Named(hs, name) == {i \in 1..Len(hs) : hs[i].name = name}

\* The value of the last header named exactly name, or None.
LastNamed(hs, name) ==
    IF Named(hs, name) = {} THEN None
    ELSE LitVal(hs[CHOOSE i \in Named(hs, name) : \A j \in Named(hs, name) : j <= i].value)

\* C9: header lookup is by exact, case-sensitive name and the last
\* occurrence wins: sender (subject) is the value of the last header named
\* exactly From (Subject), and null when no header has that name.
C9_LastHeaderWins ==
    (epc = "done" /\ email.t = "email") =>
        LET hs == Get(Get(message, "payload", EmptyDict), "headers", <<>>)
        IN  /\ email.sender = LastNamed(hs, "From")
            /\ email.subject = LastNamed(hs, "Subject")

\* Two From headers with different values and a lower-case from header
\* after them: the second From header's value is the sender.
C9_Witness ==
    /\ epc = "done"
    /\ "payload" \in DOMAIN message
    /\ message.payload.headers =
          <<[name |-> "From", value |-> "No Sender"],
            [name |-> "From", value |-> "sender1@example.com"],
            [name |-> "from", value |-> "No Sender"]>>
    /\ email.sender = LitVal("sender1@example.com")
    /\ email.subject = None

\* The paths of the parts all of whose proper ancestors are multipart/*,
\* in depth-first pre-order, siblings left to right.
RECURSIVE VisitOrder(_, _)
VisitOrder(part, path) ==
    <<path>> \o
        (IF StartsWithMultipart(MimeTypeOf(part))
         THEN ConcatAll([i \in 1..Len(SubParts(part)) |->
                            VisitOrder(SubParts(part)[i], Append(path, i))])
         ELSE <<>>)

\* C10: for every finite part tree the stack loop terminates with the stack
\* empty, having popped each part all of whose proper ancestors are
\* multipart/* exactly once, in depth-first pre-order with siblings left to
\* right. Each iteration pops the next part of that order and the parts
\* popped and pending never outnumber the order, so the loop ends after as
\* many iterations as the order has parts.
C10_PreOrderTermination ==
    LET order == VisitOrder(payload, <<>>)
    IN  wpc \in {"loop", "done"} =>
          /\ IsPrefix(popped, order)
          /\ parts_to_visit = <<>> <=> popped = order
          /\ Len(popped) + Len(parts_to_visit) <= Len(order)
          /\ \A i, j \in 1..Len(popped) : popped[i] = popped[j] => i = j
          /\ wpc = "done" => parts_to_visit = <<>> /\ popped = order

\* The walk of a multipart payload over a nested multipart and a second
\* child is over: root, first child, grandchild, second child.
C10_Witness ==
    /\ wpc = "done"
    /\ payload = WithParts(MixedPart, <<WithParts(MixedPart, <<PlainA>>), PlainB>>)
    /\ popped = <<<<>>, <<1>>, <<1, 1>>, <<2>>>>
    /\ parts_to_visit = <<>>

=============================================================================
